---------------------------- MODULE Spec2Model ----------------------------
(***************************************************************************)
(* A state-machine model of the noise preview engine of src/src/app.rs:    *)
(* the settings panel (one `setting` per field, with its reset button and  *)
(* the tile-size/frequency link), the value cache (Cache::resize) and the  *)
(* render cycle App::image_preview_contents (dirty check, resize, sampler  *)
(* resolution, grid fill, normalization, texture hand-off).                *)
(*                                                                         *)
(* Numbers.  f32 settings are modelled by small integers and the grid      *)
(* coordinates by exact rationals <<numerator, denominator>> in lowest     *)
(* terms; f32 rounding is not modelled.  The texture-size range 0..=1024   *)
(* is scaled down to 0..MaxTextureSize and its default (295) to            *)
(* DefaultTextureSize.                                                     *)
(*                                                                         *)
(* The noise library (crates noise_functions / noise_functions_config) is  *)
(* not part of the repository.  Its two entry points are stand-ins: a      *)
(* fixed capability table (SamplerIsSome) for Config::sampler2..sampler4a  *)
(* and a fixed pure function (SamplerSample) for Sampler::sample.          *)
(***************************************************************************)
EXTENDS Integers, Sequences, FiniteSets, TLC

VARIABLES
    settings,        \* App.settings (Settings, with Config's fields inlined)
    texture,         \* App.texture: the image last handed to the display sink
    changed,         \* App.changed: the dirty flag
    elapsed,         \* App.elapsed
    sample_success,  \* App.sample_success
    cache,           \* App.cache: [values, pixels, size]
    panicked,        \* TRUE once an index was out of bounds (a Rust panic)
    last,            \* history: what the last operation was and did
    displayed,       \* what the last cycle painted (ui.add(Image), message)
    texture_reads,   \* history: where the values behind `texture` came from
    pending,         \* history: settings mutated since the last render cycle
    edits            \* history: settings mutated since construction

vars == <<settings, texture, changed, elapsed, sample_success, cache,
          panicked, displayed, last, texture_reads, pending, edits>>

----------------------------------------------------------------------------
(* Bounds of the model *)

\* Largest texture size the Texture Size widget is given (1024 in the code).
MaxTextureSize == 2
\* Largest value of the shifts x, y, z, w.
MaxShift == 1
\* The durations a pass is measured to take (`start.elapsed()`).
ElapsedTicks == { 1, 2 }
\* Number of setting mutations explored from the defaults.
MaxEdits == 2

\* DEFAULT_SETTINGS.texture_size, scaled into 0..MaxTextureSize.
DefaultTextureSize == 2

----------------------------------------------------------------------------
(* Enumerations *)

\* Noise, in the order of the match of the normalization step.
NoiseVariants ==
    << "Value", "ValueCubic", "Perlin", "Simplex", "OpenSimplex2",
       "OpenSimplex2s", "CellValue", "FastCellValue", "CellDistance",
       "FastCellDistance", "FastCellDistanceSq" >>

DimensionVariants == << "D2", "D3", "D4" >>

FractalVariants == << "None", "Fbm", "Ridged", "PingPong" >>

\* The variants of the library's parameter enums that the model exercises.
ImproveVariants == << "Xy", "Xz" >>
DistanceFnVariants == << "Euclidean", "Manhattan" >>
CellIndexVariants == << "I0", "I1" >>
DistanceReturnTypeVariants == << "Index0", "Index0Add1" >>

Range(seq) == { seq[i] : i \in DOMAIN seq }

IndexOf(seq, v) == CHOOSE i \in DOMAIN seq : seq[i] = v

----------------------------------------------------------------------------
(* Settings *)

DEFAULT_SETTINGS ==
    [ noise |-> "Simplex",
      seed |-> 0,
      frequency |-> 3,
      fractal |-> "None",
      lacunarity |-> 2,
      octaves |-> 3,
      gain |-> 0,                \* 0.5: numeric parameters are integer tokens
      ping_pong_strength |-> 2,
      weighted_strength |-> 0,
      improve |-> "Xy",
      jitter |-> 1,
      value_index |-> "I0",
      distance_fn |-> "Euclidean",
      distance_index_0 |-> "I0",
      distance_index_1 |-> "I1",
      distance_return_type |-> "Index0",
      tileable |-> TRUE,
      tile_width |-> 3,
      tile_height |-> 3,
      texture_size |-> DefaultTextureSize,
      dimension |-> "D2",
      x |-> 0,
      y |-> 0,
      z |-> 0,
      w |-> 0,
      simd |-> FALSE,
      show_tiles |-> TRUE,
      link_tile_size_to_frequency |-> TRUE ]

Fields == DOMAIN DEFAULT_SETTINGS

\* Values a numeric widget can be dragged to in the model: the parameters of
\* the noise are tokens to the engine, the default and one other do.
Steps(f) == { DEFAULT_SETTINGS[f], DEFAULT_SETTINGS[f] + 1 }

\* The values the widget of field f offers.
Domain(f) ==
    CASE f = "noise" -> Range(NoiseVariants)
      [] f = "dimension" -> Range(DimensionVariants)
      [] f = "fractal" -> Range(FractalVariants)
      [] f = "improve" -> Range(ImproveVariants)
      [] f = "distance_fn" -> Range(DistanceFnVariants)
      [] f \in {"value_index", "distance_index_0", "distance_index_1"} ->
            Range(CellIndexVariants)
      [] f = "distance_return_type" -> Range(DistanceReturnTypeVariants)
      [] f \in {"tileable", "simd", "show_tiles",
                "link_tile_size_to_frequency"} -> BOOLEAN
      [] f = "texture_size" -> 0..MaxTextureSize
      [] f \in {"x", "y", "z", "w"} -> 0..MaxShift
      [] f = "octaves" -> Steps(f) \cap 1..8
      [] f = "weighted_strength" -> Steps(f) \cap 0..1
      [] f = "ping_pong_strength" -> Steps(f) \cap 0..3
      [] OTHER -> Steps(f)

CellKinds ==
    { "CellValue", "CellDistance", "FastCellValue", "FastCellDistance",
      "FastCellDistanceSq" }

\* Whether settings_panel_contents builds the widget of field f this frame.
Shown(f, s) ==
    CASE f = "improve" ->
            /\ s.noise \in {"OpenSimplex2", "OpenSimplex2s"}
            /\ s.dimension = "D3"
      [] f = "jitter" -> s.noise \in CellKinds
      [] f = "distance_fn" -> s.noise \in {"CellValue", "CellDistance"}
      [] f = "value_index" ->
            /\ s.noise \in {"CellValue", "CellDistance"}
            /\ s.noise \in {"CellValue", "FastCellValue"}
      [] f \in {"distance_index_0", "distance_index_1",
                "distance_return_type"} ->
            /\ s.noise \in {"CellValue", "CellDistance"}
            /\ s.noise \in {"CellDistance", "FastCellDistance",
                            "FastCellDistanceSq"}
      [] f \in {"octaves", "lacunarity", "gain", "weighted_strength"} ->
            s.fractal # "None"
      [] f = "ping_pong_strength" ->
            s.fractal # "None" /\ s.fractal = "PingPong"
      [] f \in {"link_tile_size_to_frequency", "tile_width",
                "tile_height"} -> s.tileable
      [] f = "z" -> s.dimension \in {"D3", "D4"}
      [] f = "w" -> s.dimension = "D4"
      [] f = "show_tiles" -> s.dimension = "D2" /\ s.tileable
      [] OTHER -> TRUE

\* Mutant of LinkTileSize: nothing is propagated.
LinkTileSizeNever(f, s) == s

\* The body of the `if setting(..) && *link_tile_size_to_frequency` blocks:
\* s is the settings after the widget of field f changed its value.
LinkTileSize(f, s) ==
    IF s.link_tile_size_to_frequency
          /\ f \in {"frequency", "tile_width", "tile_height"}
    THEN [s EXCEPT !.frequency = s[f], !.tile_width = s[f],
                   !.tile_height = s[f]]
    ELSE s

\* Mutant of MarkChanged: the flag is not raised.
MarkChangedDropped(flag, setting_changed) == flag

\* `*changed |= setting_changed`
MarkChanged(flag, setting_changed) == flag \/ setting_changed


----------------------------------------------------------------------------
(* Exact rational arithmetic for the grid coordinates *)

Abs(n) == IF n < 0 THEN -n ELSE n

RECURSIVE GCD(_, _)
GCD(a, b) == IF b = 0 THEN a ELSE GCD(b, a % b)

\* n/d in lowest terms, for d > 0.
Rat(n, d) ==
    LET g == GCD(Abs(n), d)
    IN  << n \div g, d \div g >>

RatInt(n) == << n, 1 >>

RatAdd(a, b) == Rat(a[1] * b[2] + b[1] * a[2], a[2] * b[2])

RatSub(a, b) == Rat(a[1] * b[2] - b[1] * a[2], a[2] * b[2])

RatMul(a, b) == Rat(a[1] * b[1], a[2] * b[2])

----------------------------------------------------------------------------
(* The noise library, as the engine sees it *)

\* Raw noise values are the integers -MaxRaw..MaxRaw in units of 1/RawDen,
\* so that they cover the nominal range [-1, 1] and values beyond it.
MaxRaw == 3
RawDen == MaxRaw - 1

\* Kinds the capability table gives a 4D evaluator.
Has4D == { "Value", "ValueCubic", "Perlin", "Simplex" }

\* Whether Config::sampler2 / sampler3 / sampler4 (simd: sampler2a / 3a / 4a)
\* returns Some: the kind needs an evaluator in the dimension, and a tileable
\* field is the 2D section of a 4D one.
SamplerIsSome(s) ==
    IF s.tileable
    THEN s.dimension = "D2" /\ s.noise \in Has4D
    ELSE s.dimension = "D4" => s.noise \in Has4D

RECURSIVE SumSeq(_)
SumSeq(q) == IF q = << >> THEN 0 ELSE Head(q) + SumSeq(Tail(q))

BoolCode(b) == IF b THEN 1 ELSE 0

\* What the resolved sampler depends on: every field of Config, the
\* dimension and the precision mode.
ConfigCode(s) ==
      IndexOf(NoiseVariants, s.noise)
    + 2 * s.seed
    + 3 * s.frequency
    + 2 * IndexOf(FractalVariants, s.fractal)
    + 3 * s.lacunarity
    + s.octaves
    + 2 * s.gain
    + 3 * s.ping_pong_strength
    + s.weighted_strength
    + 2 * IndexOf(ImproveVariants, s.improve)
    + 3 * s.jitter
    + IndexOf(CellIndexVariants, s.value_index)
    + 2 * IndexOf(DistanceFnVariants, s.distance_fn)
    + 3 * IndexOf(CellIndexVariants, s.distance_index_0)
    + IndexOf(CellIndexVariants, s.distance_index_1)
    + 2 * IndexOf(DistanceReturnTypeVariants, s.distance_return_type)
    + 3 * BoolCode(s.tileable)
    + s.tile_width
    + 2 * s.tile_height
    + 3 * IndexOf(DimensionVariants, s.dimension)
    + BoolCode(s.simd)

\* Sampler::sample(point): a fixed pure function of the sampler and the
\* point, with values in -MaxRaw..MaxRaw.
SamplerSample(s, point) ==
    LET h == ConfigCode(s)
             + SumSeq([k \in DOMAIN point |->
                          (k + 1) * point[k][1] + (2 * k + 1) * point[k][2]])
    IN  (h % (2 * MaxRaw + 1)) - MaxRaw

----------------------------------------------------------------------------
(* Cache *)

\* An element of Cache.values: the scalar, with where it came from
\* ("zero": the allocation, "fill": a grid fill) and, for a sampled value,
\* the coordinate vector the sampler was given.
ZeroValue == [raw |-> 0, origin |-> "zero", at |-> << >>]

\* egui::Color32::from_rgb(255, 0, 255)
Magenta == << 255, 0, 255 >>

\* egui::Color32::from_gray(g)
FromGray(g) == << g, g, g >>

\* Cache::default()
EmptyCache == [values |-> << >>, pixels |-> << >>, size |-> 0]

\* Mutant of Resize: only the scalar buffer is reallocated.
ResizeValuesOnly(c, new_size) ==
    IF new_size = c.size
    THEN c
    ELSE [values |-> [i \in 1..new_size |-> ZeroValue],
          pixels |-> c.pixels,
          size |-> new_size]

\* Mutant of Resize: the buffers are resized in place, keeping the elements
\* they already hold.
ResizeInPlace(c, new_size) ==
    IF new_size = c.size
    THEN c
    ELSE [values |-> [i \in 1..new_size |->
                        IF i <= Len(c.values) THEN c.values[i]
                        ELSE ZeroValue],
          pixels |-> [i \in 1..new_size |->
                        IF i <= Len(c.pixels) THEN c.pixels[i]
                        ELSE Magenta],
          size |-> new_size]

\* Mutant of Resize: a request for an empty cache is ignored.
ResizeSkipsEmpty(c, new_size) ==
    IF new_size = c.size \/ new_size = 0
    THEN c
    ELSE [values |-> [i \in 1..new_size |-> ZeroValue],
          pixels |-> [i \in 1..new_size |-> Magenta],
          size |-> new_size]

\* Cache::resize
Resize(c, new_size) ==
    IF new_size = c.size
    THEN c
    ELSE [values |-> [i \in 1..new_size |-> ZeroValue],
          pixels |-> [i \in 1..new_size |-> Magenta],
          size |-> new_size]


----------------------------------------------------------------------------
(* The grid fill: fn sample and the closures that call the sampler *)

\* Mutant of Coordinate: the centered window whatever `tileable` says.
CoordinateCentered(tileable, n, size, shift) ==
    RatAdd(RatSub(RatMul(RatInt(n), RatMul(Rat(1, size), RatInt(2))),
                  RatInt(1)),
           RatInt(shift))

\* The coordinate of grid index n along one axis, as `sample` computes it:
\* n * scalar + shift when tileable, n * scalar_times_two - 1 + shift
\* otherwise, with scalar = 1 / size.
Coordinate(tileable, n, size, shift) ==
    LET scalar == Rat(1, size)
        scalar_times_two == RatMul(scalar, RatInt(2))
    IN  IF tileable
        THEN RatAdd(RatMul(RatInt(n), scalar), RatInt(shift))
        ELSE RatAdd(RatSub(RatMul(RatInt(n), scalar_times_two), RatInt(1)),
                    RatInt(shift))

\* Mutant of SamplerPoint: every branch passes all four axes.
SamplerPointAllAxes(s, x, y) == << x, y, RatInt(s.z), RatInt(s.w) >>

\* The vector the closure of each (simd, dimension) branch gives the sampler.
SamplerPoint(s, x, y) ==
    LET z == RatInt(s.z)
        w == RatInt(s.w)
    IN  IF s.simd
        THEN CASE s.dimension = "D2" -> << x, y >>
               [] s.dimension = "D3" -> << x, y, z, RatInt(0) >>
               [] s.dimension = "D4" -> << x, y, z, w >>
        ELSE CASE s.dimension = "D2" -> << x, y >>
               [] s.dimension = "D3" -> << x, y, z >>
               [] s.dimension = "D4" -> << x, y, z, w >>

\* Mutant of SampleIndex: the fill indexes the buffer by columns.
SampleIndexTransposed(x, y, size) == x * size + y

\* `let i = y * size + x` of the fill (0-based).
SampleIndex(x, y, size) == y * size + x

\* The 0-based indices the two nested loops of `sample` write.
SampleIndices(size) ==
    { SampleIndex(x, y, size) : x \in 0..(size - 1), y \in 0..(size - 1) }

\* `values[i] = f(x, y)` for the grid cell with loop variables x and y.
SampledValue(s, x, y) ==
    LET size == s.texture_size
        point == SamplerPoint(s,
                     Coordinate(s.tileable, x, size, s.x),
                     Coordinate(s.tileable, y, size, s.y))
    IN  [raw |-> SamplerSample(s, point), origin |-> "fill", at |-> point]

\* fn sample: the buffer after the loops (every written index in bounds).
sample(values, s) ==
    LET size == s.texture_size
    IN  [i \in 1..Len(values) |->
            IF i - 1 \in SampleIndices(size)
            THEN LET c == CHOOSE c \in (0..(size - 1)) \X (0..(size - 1)) :
                              SampleIndex(c[1], c[2], size) = i - 1
                 IN  SampledValue(s, c[1], c[2])
            ELSE values[i]]

\* An index of the fill lies outside the buffer.
SampleOutOfBounds(values, s) ==
    \E i \in SampleIndices(s.texture_size) : i >= Len(values)

----------------------------------------------------------------------------
(* The normalization step *)

SignedKinds ==
    { "Value", "ValueCubic", "Perlin", "Simplex", "OpenSimplex2",
      "OpenSimplex2s", "CellValue", "FastCellValue" }

\* value_01 * 255.0 as a fraction <<numerator, denominator>>, denominator > 0,
\* for a raw value in units of 1/RawDen.
Value255(noise, raw) ==
    IF noise \in SignedKinds
    THEN << 255 * (raw + RawDen), 2 * RawDen >>    \* (value * 0.5 + 0.5) * 255
    ELSE << 255 * raw, RawDen >>                   \* value * 255

\* Mutant of AsU8: the conversion wraps around modulo 256.
AsU8Wrapping(q) == (q[1] \div q[2]) % 256

\* `as u8`: truncation toward zero, saturating at 0 and 255.
AsU8(q) ==
    IF q[1] <= 0 THEN 0
    ELSE IF q[1] \div q[2] > 255 THEN 255
    ELSE q[1] \div q[2]

\* `let i = x * size + y` of the normalization loops (0-based).
NormalizeIndex(x, y, size) == x * size + y

NormalizeIndices(size) ==
    { NormalizeIndex(x, y, size) : x \in 0..(size - 1), y \in 0..(size - 1) }

\* The pixel buffer after the normalization loops.
Normalize(values, pixels, s) ==
    [i \in 1..Len(pixels) |->
        IF i - 1 \in NormalizeIndices(s.texture_size)
        THEN FromGray(AsU8(Value255(s.noise, values[i].raw)))
        ELSE pixels[i]]

NormalizeOutOfBounds(values, pixels, s) ==
    \E i \in NormalizeIndices(s.texture_size) :
        i >= Len(values) \/ i >= Len(pixels)


----------------------------------------------------------------------------
(* The application *)

\* egui::ColorImage::example(), the image the texture is created with: a
\* small coloured image that is no output of the engine.
ExampleImage ==
    [size |-> << 2, 1 >>, pixels |-> << << 255, 0, 0 >>, << 0, 0, 255 >> >>]

\* The record kept of the last operation: which it was; for a render cycle
\* whether it found the dirty flag set, whether the sampler resolved, how
\* often `sample` was called and how many settings were mutated since the
\* cycle before; for a resize (of a cycle or on its own) whether it
\* reallocated and the size it found.
Op(op, dirty, resolved, realloc, fills, mutations, prev_size) ==
    [op |-> op, dirty |-> dirty, resolved |-> resolved,
     realloc |-> realloc, fills |-> fills, mutations |-> mutations,
     prev_size |-> prev_size]

\* App::new
Init ==
    /\ settings = DEFAULT_SETTINGS
    /\ texture = ExampleImage
    /\ changed = TRUE
    /\ elapsed = 0
    /\ cache = EmptyCache
    /\ sample_success = TRUE
    /\ panicked = FALSE
    /\ last = Op("new", FALSE, FALSE, FALSE, 0, 0, 0)
    /\ displayed = "nothing"
    /\ texture_reads = {"example"}
    /\ pending = 0
    /\ edits = 0

\* A frame in which the widget of field f is shown and its value changes to
\* new_value: the assignment, the link of the tile size to the frequency and
\* `*changed |= setting_changed` of fn setting.  Not more than `budget`
\* mutations are explored.
SetValue(f, new_value, how, budget) ==
    /\ ~panicked
    /\ edits < budget
    /\ Shown(f, settings)
    /\ settings' = LinkTileSize(f, [settings EXCEPT ![f] = new_value])
    /\ changed' = MarkChanged(changed, TRUE)
    /\ last' = Op(how, FALSE, FALSE, FALSE, 0, 0, cache.size)
    /\ pending' = pending + 1
    /\ edits' = edits + 1
    /\ UNCHANGED <<texture, elapsed, sample_success, cache, panicked,
                   displayed, texture_reads>>

\* The widget of field f is used (a drag, a combo box choice, a checkbox)
\* and reports a change: the value is another one.
SettingWidget(f, v, budget) ==
    /\ v \in Domain(f)
    /\ v # settings[f]
    /\ SetValue(f, v, "widget", budget)

\* Mutant of ResetEnabled: the button is always enabled.
ResetEnabledAlways(value, default) == TRUE

\* `ui.add_enabled(*value != default, ..)`: whether the reset button of a
\* field can be clicked.
ResetEnabled(value, default) == value # default

\* Reset: a click on the enabled button assigns the default and reports a
\* change.
SettingReset(f, budget) ==
    /\ ResetEnabled(settings[f], DEFAULT_SETTINGS[f])
    /\ SetValue(f, DEFAULT_SETTINGS[f], "reset", budget)

\* The values of the cache as a render pass finds them after cache.resize:
\* fresh zeros after a reallocation, else what earlier passes left.
Aged(values, realloc) ==
    [i \in 1..Len(values) |->
        [values[i] EXCEPT !.origin = IF realloc THEN "zero" ELSE "stale"]]

\* The scalar buffer after the `let sampled: bool = ...` block.
Filled(values, s) ==
    IF SamplerIsSome(s) THEN sample(values, s) ELSE values

\* Mutant of Sampled: success is reported whatever the resolution gave.
SampledAlways(s) == TRUE

\* `self.sample_success = sampled`
Sampled(s) == SamplerIsSome(s)

\* Mutant of Normalized: the loops run only after a fill.
NormalizedIfSampled(values, pixels, s) ==
    IF SamplerIsSome(s) THEN Normalize(values, pixels, s) ELSE pixels

\* The pixel buffer after the normalization loops of a pass.
Normalized(values, pixels, s) == Normalize(values, pixels, s)

\* `texture.set(ColorImage { size: [texture_size; 2], pixels: clone })`
TextureSet(s, pixels) ==
    [size |-> << s.texture_size, s.texture_size >>, pixels |-> pixels]

\* What the end of image_preview_contents paints: the texture four times
\* (show_tiles and success), else once, with the message on a failure.
Display(s, success) ==
    IF s.show_tiles /\ success THEN "tiles"
    ELSE IF ~success THEN "image with message"
    ELSE "image"

\* The body of `if *changed { ... }`.
RenderPass(t) ==
    LET s == settings
        size == s.texture_size
        realloc == size * size # cache.size
        resized == Resize(cache, size * size)
        before == Aged(resized.values, realloc)
        oob1 == SamplerIsSome(s) /\ SampleOutOfBounds(before, s)
        values == Filled(before, s)
        oob2 == NormalizeOutOfBounds(values, resized.pixels, s)
        pixels == Normalized(values, resized.pixels, s)
    IN  IF oob1 \/ oob2
        THEN /\ panicked' = TRUE
             /\ changed' = FALSE
             /\ last' = Op("render", TRUE, SamplerIsSome(s), realloc,
                           0, pending, cache.size)
             /\ UNCHANGED <<settings, texture, elapsed, sample_success,
                            cache, displayed, texture_reads, pending,
                            edits>>
        ELSE /\ changed' = FALSE
             /\ cache' = [values |-> values, pixels |-> pixels,
                          size |-> resized.size]
             /\ sample_success' = Sampled(s)
             /\ elapsed' = t
             /\ texture' = TextureSet(s, pixels)
             /\ texture_reads' =
                    { values[i + 1].origin : i \in NormalizeIndices(size) }
             /\ displayed' = Display(s, Sampled(s))
             /\ last' = Op("render", TRUE, SamplerIsSome(s), realloc,
                           IF SamplerIsSome(s) THEN 1 ELSE 0, pending,
                           cache.size)
             /\ pending' = 0
             /\ UNCHANGED <<settings, panicked, edits>>

\* A cycle that finds the dirty flag clear.
RenderIdle ==
    /\ displayed' = Display(settings, sample_success)
    /\ last' = Op("render", FALSE, FALSE, FALSE, 0, pending, cache.size)
    /\ pending' = 0
    /\ UNCHANGED <<settings, texture, changed, elapsed, sample_success,
                   cache, panicked, texture_reads, edits>>

\* Mutant of IsDirty: every cycle recomputes.
IsDirtyAlways(flag) == TRUE

\* Whether a cycle recomputes: `if *changed`.
IsDirty(flag) == flag

\* App::image_preview_contents
ImagePreviewContents ==
    /\ ~panicked
    /\ IF IsDirty(changed)
       THEN \E t \in ElapsedTicks : RenderPass(t)
       ELSE RenderIdle

\* App::settings_panel_contents, for the widget the user acts on, among
\* the widgets of the fields in F.
SettingsPanel(F, budget) ==
    \/ \E f \in F : \E v \in Domain(f) : SettingWidget(f, v, budget)
    \/ \E f \in F : SettingReset(f, budget)

SettingsPanelContents == SettingsPanel(Fields, MaxEdits)

Next ==
    \/ SettingsPanelContents
    \/ ImagePreviewContents

Spec == Init /\ [][Next]_vars


----------------------------------------------------------------------------
(* The cache on its own: resize calls between the render cycles *)

\* Largest size a direct resize call asks for.
MaxNewSize == 5

\* cache.resize(n), called on its own.
CacheResize(n) ==
    /\ ~panicked
    /\ cache' = Resize(cache, n)
    /\ last' = Op("resize", FALSE, FALSE, n # cache.size, 0, 0, cache.size)
    /\ UNCHANGED <<settings, texture, changed, elapsed, sample_success,
                   panicked, displayed, texture_reads, pending, edits>>

\* The settings that decide the size of the cache and whether it is filled.
CacheFields == { "texture_size", "dimension" }

NextCache ==
    \/ \E n \in 0..MaxNewSize : CacheResize(n)
    \/ SettingsPanel(CacheFields, MaxEdits)
    \/ ImagePreviewContents

SpecCache == Init /\ [][NextCache]_vars


----------------------------------------------------------------------------
(* The viewport on its own: the settings that select the sampler's branch *)

\* Number of mutations explored among the viewport fields.
MaxViewportEdits == 5

\* The fields the (simd, dimension) dispatch and its closures read, and
\* `tileable`, which decides with them whether the sampler resolves.
ViewportFields == { "tileable", "dimension", "simd", "z", "w" }

NextViewport ==
    \/ SettingsPanel(ViewportFields, MaxViewportEdits)
    \/ ImagePreviewContents

SpecViewport == Init /\ [][NextViewport]_vars

----------------------------------------------------------------------------
(* The tile-size link on its own *)

\* Number of mutations explored among the fields of the link.
MaxLinkEdits == 4

\* The three linked fields.
LinkedFields == { "frequency", "tile_width", "tile_height" }

\* The linked fields, the toggle of the link and `tileable`, which shows and
\* hides the toggle and the two tile sizes.
LinkFields == LinkedFields \cup { "link_tile_size_to_frequency", "tileable" }

NextLink ==
    \/ SettingsPanel(LinkFields, MaxLinkEdits)
    \/ ImagePreviewContents

SpecLink == Init /\ [][NextLink]_vars

----------------------------------------------------------------------------
(* Properties of the render cycle *)

\* The last operation was a render cycle that found the dirty flag set.
AfterDirtyCycle == last.op = "render" /\ last.dirty

\* C1: a render cycle entered with the dirty flag clear recomputes nothing:
\* the cache (values, pixels, size), the texture of the display sink,
\* `elapsed` and `sample_success` are what they were, no pass and no fill
\* runs, and the flag stays clear, so that any number of such cycles in a
\* row changes nothing.
C1_IdleCycleRecomputesNothing ==
    [][ (~changed /\ ImagePreviewContents) =>
            /\ UNCHANGED <<cache, texture, elapsed, sample_success, changed,
                           texture_reads>>
            /\ ~last'.dirty
            /\ last'.fills = 0 ]_vars

\* A second cycle in a row, with nothing mutated, on a filled cache.
C1_Witness ==
    /\ last.op = "render" /\ ~last.dirty /\ last.mutations = 0
    /\ ~changed
    /\ elapsed > 0
    /\ cache.size > 0
    /\ texture # ExampleImage

\* The configuration and viewport fields of claim C2.
TrackedFields == Fields \ { "show_tiles", "link_tile_size_to_frequency" }

AllFilled(values) == \A i \in DOMAIN values : values[i].origin = "fill"

NoneFilled(values) == \A i \in DOMAIN values : values[i].origin # "fill"

\* C2 as stated: a setting that mutates a tracked field raises the dirty
\* flag, and the next render cycle performs exactly one resample (one grid
\* fill) and leaves the flag clear.
C2_OneResamplePerMutation ==
    /\ last.op \in {"widget", "reset"} => changed
    /\ (last.op = "render" /\ last.mutations > 0) =>
            last.dirty /\ last.fills = 1 /\ ~changed

\* C2, amended: a step that changes a tracked field leaves the dirty flag
\* set; the flag stays set until a render cycle; that cycle runs exactly one
\* recomputation pass, which fills the grid exactly once when the sampler
\* resolves and not at all when it does not, and clears the flag, however
\* many fields were mutated before it.
C2_DirtyCoverage ==
    [][ /\ \A f \in TrackedFields : settings'[f] # settings[f] => changed'
        /\ (changed /\ ~ImagePreviewContents) => changed'
        /\ (changed /\ ImagePreviewContents) =>
                /\ ~changed'
                /\ last'.dirty
                /\ last'.mutations = pending
                /\ IF SamplerIsSome(settings)
                   THEN last'.fills = 1 /\ AllFilled(cache'.values)
                   ELSE last'.fills = 0 /\ NoneFilled(cache'.values) ]_vars

\* Two fields were mutated before one cycle, which filled the grid once.
C2_Witness ==
    /\ AfterDirtyCycle
    /\ last.mutations = 2
    /\ last.fills = 1
    /\ cache.size > 0
    /\ ~changed

\* C3 as stated: a dirty cycle whose sampler is absent sets sample_success
\* to false and leaves the pixel buffer and the image of the display sink
\* as they were before the cycle.
C3_UnsupportedKeepsImage ==
    [][ (changed /\ ~SamplerIsSome(settings) /\ ImagePreviewContents) =>
            /\ ~sample_success'
            /\ cache'.pixels = cache.pixels
            /\ texture' = texture ]_vars

\* C4: no cycle panics; after a dirty cycle sample_success tells whether
\* the sampler resolved for the settings of that cycle; and whenever an
\* image has been painted while sample_success is true, every value behind
\* the texture was written by the grid fill of the pass that produced it.
C4_SuccessMeansSampled ==
    /\ ~panicked
    /\ AfterDirtyCycle => (sample_success <=> SamplerIsSome(settings))
    /\ (displayed # "nothing" /\ sample_success) =>
            /\ texture_reads \subseteq {"fill"}
            /\ texture # ExampleImage

\* A dirty cycle whose sampler did not resolve completed and reported it.
C4_Witness ==
    /\ AfterDirtyCycle
    /\ ~SamplerIsSome(settings)
    /\ ~sample_success
    /\ displayed = "image with message"
    /\ ~panicked

\* The pixel grid of a pass on a new engine (an empty cache).
FreshPixels(s) ==
    LET resized == Resize(EmptyCache, s.texture_size * s.texture_size)
        values == Filled(Aged(resized.values, TRUE), s)
    IN  Normalized(values, resized.pixels, s)

\* C5 as stated: the grid a dirty cycle hands over is the one a new engine
\* produces in the same settings, whatever the history of the cache (so any
\* two histories that end in the same settings give the same grid).
C5_GridDependsOnSettingsOnly ==
    AfterDirtyCycle => texture = TextureSet(settings, FreshPixels(settings))

\* C8 as stated: every value the normalization of a dirty cycle reads was
\* written by the grid fill of that cycle.
C8_NormalizationReadsFilledValues ==
    AfterDirtyCycle => texture_reads \subseteq {"fill"}

\* C9: with texture_size = 0 a dirty cycle completes without a panic, and
\* the scalar buffer, the pixel buffer and the image handed to the sink are
\* empty, whatever the cache held before.
C9_EmptyGrid ==
    /\ ~panicked
    /\ (AfterDirtyCycle /\ settings.texture_size = 0) =>
            /\ cache = EmptyCache
            /\ texture = [size |-> << 0, 0 >>, pixels |-> << >>]

\* A pass for texture_size = 0 that found a cache of another size.
C9_Witness ==
    /\ AfterDirtyCycle
    /\ settings.texture_size = 0
    /\ last.prev_size > 0
    /\ last.realloc
    /\ ~panicked

\* n/N + shift (tile) and (n/N)*2 - 1 + shift, as fractions of N.
ClaimedCoordinate(tile, n, N, shift) ==
    IF tile THEN Rat(n + shift * N, N) ELSE Rat(2 * n - N + shift * N, N)

\* C10: after a pass whose sampler resolved, the points the sampler was
\* evaluated at are, for the cells (ix, iy) of the N x N grid,
\* x = ix/N + shift.x, y = iy/N + shift.y when tileable and
\* x = (ix/N)*2 - 1 + shift.x, y = (iy/N)*2 - 1 + shift.y when not, one point
\* per cell; and for every cell the other policy gives another x and
\* another y for the same shift.
C10_CoordinatePolicy ==
    (AfterDirtyCycle /\ sample_success) =>
        LET s == settings
            N == s.texture_size
            cells == (0..(N - 1)) \X (0..(N - 1))
        IN  /\ Len(cache.values) = N * N
            /\ { << cache.values[i].at[1], cache.values[i].at[2] >> :
                    i \in DOMAIN cache.values }
               = { << ClaimedCoordinate(s.tileable, c[1], N, s.x),
                      ClaimedCoordinate(s.tileable, c[2], N, s.y) >> :
                    c \in cells }
            /\ Cardinality({ cache.values[i].at : i \in DOMAIN cache.values })
               = N * N
            /\ \A c \in cells :
                    /\ ClaimedCoordinate(TRUE, c[1], N, s.x)
                         # ClaimedCoordinate(FALSE, c[1], N, s.x)
                    /\ ClaimedCoordinate(TRUE, c[2], N, s.y)
                         # ClaimedCoordinate(FALSE, c[2], N, s.y)

\* A filled 2 x 2 grid in the centered (non-tileable) window, shifted in x.
C10_Witness ==
    /\ AfterDirtyCycle /\ sample_success
    /\ ~settings.tileable
    /\ settings.texture_size = 2
    /\ settings.x = 1
    /\ cache.values[2].at[1] = << 1, 1 >>

----------------------------------------------------------------------------
(* Properties of the cache *)

\* C6: the two buffers of the cache have the length `size` in every state,
\* and after a dirty cycle that length is texture_size * texture_size.
C6_CacheLengths ==
    /\ Len(cache.values) = cache.size
    /\ Len(cache.pixels) = cache.size
    /\ AfterDirtyCycle =>
            cache.size = settings.texture_size * settings.texture_size

\* A pass reallocated a cache that held a grid of another size.
C6_Witness ==
    /\ AfterDirtyCycle
    /\ last.realloc
    /\ last.prev_size > 0
    /\ cache.size > 0
    /\ Len(cache.pixels) = cache.size

\* C7: resize(n) leaves the cache untouched when n is its size; otherwise
\* the cache becomes n zero scalars and n magenta pixels of size n, nothing
\* of the old contents left; and a second resize(n) changes nothing.
C7_ResizeContract ==
    [][ \A n \in 0..MaxNewSize :
            CacheResize(n) =>
                /\ n = cache.size => cache' = cache
                /\ n # cache.size =>
                        /\ cache'.size = n
                        /\ cache'.values = [i \in 1..n |-> ZeroValue]
                        /\ cache'.pixels = [i \in 1..n |-> << 255, 0, 255 >>]
                /\ Resize(cache', n) = cache' ]_vars

\* A resize call replaced the buffers of a non-empty cache.
C7_Witness ==
    /\ last.op = "resize"
    /\ last.realloc
    /\ last.prev_size > 0
    /\ cache.size > 0
    /\ cache.size # last.prev_size

----------------------------------------------------------------------------
(* Properties of the grid layout *)

\* Every grid cell (ix, iy) has, at the 0-based linear index Idx(ix, iy, N)
\* of the scalar buffer, the value the sampler gave for the coordinates of
\* ix along x and iy along y, and at the same index of the pixel buffer and
\* of the image of the sink the byte normalized from that value.
CellsStoredAt(Idx(_, _, _)) ==
    LET s == settings
        N == s.texture_size
    IN  \A ix \in 0..(N - 1) : \A iy \in 0..(N - 1) :
            LET i == Idx(ix, iy, N) + 1
                v == cache.values[i]
            IN  /\ v.origin = "fill"
                /\ << v.at[1], v.at[2] >>
                     = << ClaimedCoordinate(s.tileable, ix, N, s.x),
                          ClaimedCoordinate(s.tileable, iy, N, s.y) >>
                /\ v.raw = SamplerSample(s, v.at)
                /\ cache.pixels[i] = FromGray(AsU8(Value255(s.noise, v.raw)))
                /\ texture.pixels[i] = cache.pixels[i]

ColumnMajorIndex(ix, iy, N) == ix * N + iy

RowMajorIndex(ix, iy, N) == iy * N + ix

\* C11 as stated: after a pass whose sampler resolved, the value sampled for
\* the grid cell (ix, iy) is at the linear index ix*N + iy of the scalar
\* buffer and the byte normalized from it at the same index of the pixel
\* buffer.
C11_ColumnMajorLayout ==
    (AfterDirtyCycle /\ sample_success) => CellsStoredAt(ColumnMajorIndex)

\* C11, amended: after a pass whose sampler resolved, the value sampled for
\* the grid cell (ix, iy) is at the linear index iy*N + ix of the scalar
\* buffer (rows of the image are lines of constant y), and the byte
\* normalized from it is at the same index of the pixel buffer.
C11_RowMajorLayout ==
    (AfterDirtyCycle /\ sample_success) => CellsStoredAt(RowMajorIndex)

\* A filled 2 x 2 grid: the cell beside the first one in its row has
\* another x and the same y as the first.
C11_Witness ==
    /\ AfterDirtyCycle /\ sample_success
    /\ settings.texture_size = 2
    /\ cache.values[2].at[1] # cache.values[1].at[1]
    /\ cache.values[2].at[2] = cache.values[1].at[2]
    /\ texture.pixels[2] = cache.pixels[2]

\* The axes after x and y that the claim gives the coordinate vector.
ClaimedAxes(s) ==
    CASE s.dimension = "D2" -> << >>
      [] s.dimension = "D3" -> << RatInt(s.z) >>
      [] s.dimension = "D4" -> << RatInt(s.z), RatInt(s.w) >>

\* The same, with the fourth lane of the wide 3D vector: a constant zero.
WideAxes(s) ==
    IF s.simd /\ s.dimension = "D3"
    THEN << RatInt(s.z), RatInt(0) >>
    ELSE ClaimedAxes(s)

\* Every vector the sampler was given in the last fill is x, y and `axes`.
PointsEndWith(axes) ==
    \A i \in DOMAIN cache.values :
        LET p == cache.values[i].at
        IN  /\ Len(p) = 2 + Len(axes)
            /\ SubSeq(p, 3, Len(p)) = axes

----------------------------------------------------------------------------
(* Properties of the normalization *)

\* The two policies of the claim's table.
ClaimedSignedKinds ==
    { "Value", "ValueCubic", "Perlin", "Simplex", "OpenSimplex2",
      "OpenSimplex2s", "CellValue", "FastCellValue" }

ClaimedDistanceKinds ==
    { "CellDistance", "FastCellDistance", "FastCellDistanceSq" }

\* clamp(num/den, 0, 255) as a byte, for den > 0.
ClampedByte(num, den) ==
    IF num < 0 THEN 0
    ELSE IF num > 255 * den THEN 255
    ELSE num \div den

\* The byte the claim gives a raw value (in units of 1/RawDen) of a kind:
\* clamp((raw*0.5 + 0.5)*255, 0, 255), resp. clamp(raw*255, 0, 255).
ClaimedByte(noise, raw) ==
    IF noise \in ClaimedSignedKinds
    THEN ClampedByte(255 * (raw + RawDen), 2 * RawDen)
    ELSE ClampedByte(255 * raw, RawDen)

\* C13: every noise kind is in exactly one of the two policies; the pixel a
\* pass writes for a raw value is the gray clamp((raw*0.5+0.5)*255, 0, 255)
\* for the signed kinds and clamp(raw*255, 0, 255) for the distance kinds;
\* values below the domain give 0 and above it 255, and every byte is in
\* 0..255.
C13_NormalizationPolicy ==
    /\ ClaimedSignedKinds \cap ClaimedDistanceKinds = {}
    /\ ClaimedSignedKinds \cup ClaimedDistanceKinds = Range(NoiseVariants)
    /\ AfterDirtyCycle =>
            \A i \in DOMAIN cache.pixels :
                LET raw == cache.values[i].raw
                    byte == ClaimedByte(settings.noise, raw)
                IN  /\ cache.pixels[i] = << byte, byte, byte >>
                    /\ byte \in 0..255
                    /\ texture.pixels[i] = cache.pixels[i]

\* A pass of a distance kind that sampled a value below 0 and one above 1:
\* the pixels are black and white.
C13_Witness ==
    /\ AfterDirtyCycle /\ sample_success
    /\ settings.noise \in ClaimedDistanceKinds
    /\ \E i \in DOMAIN cache.values :
            cache.values[i].raw < 0 /\ cache.pixels[i] = << 0, 0, 0 >>
    /\ \E i \in DOMAIN cache.values :
            /\ cache.values[i].raw > RawDen
            /\ cache.pixels[i] = << 255, 255, 255 >>

----------------------------------------------------------------------------
(* Properties of the settings panel *)

\* The step sets field f to v through the setting of f: by its widget, or,
\* for v the default, by its reset button.
SetThroughItsSetting(f, v, budget) ==
    \/ SettingWidget(f, v, budget)
    \/ v = DEFAULT_SETTINGS[f] /\ SettingReset(f, budget)

\* C14: a frame that sets frequency, tile_width or tile_height through its
\* setting (edit or reset) ends, while the link is on, with all three equal
\* to the value set, and, while the link is off, with that field at the
\* value set and the other two as they were.
C14_LinkPropagates ==
    [][ \A f \in LinkedFields : \A v \in Domain(f) :
            SetThroughItsSetting(f, v, MaxLinkEdits) =>
                IF settings.link_tile_size_to_frequency
                THEN \A g \in LinkedFields : settings'[g] = v
                ELSE /\ settings'[f] = v
                     /\ \A g \in LinkedFields \ {f} :
                            settings'[g] = settings[g] ]_vars

\* The first mutation, made with the link on, moved all three fields.
C14_Witness ==
    /\ last.op = "widget"
    /\ edits = 1
    /\ settings.link_tile_size_to_frequency
    /\ settings.frequency # DEFAULT_SETTINGS.frequency
    /\ settings.tile_width = settings.frequency
    /\ settings.tile_height = settings.frequency

\* C15: for every field, a reset happens only while the value differs from
\* the default, and it leaves the field at its default and the dirty flag
\* set; while the value is the default no step is a reset of the field, and
\* no reset changes the field.
C15_ResetToDefault ==
    [][ \A f \in Fields :
            /\ SettingReset(f, MaxEdits) =>
                    /\ settings[f] # DEFAULT_SETTINGS[f]
                    /\ settings'[f] = DEFAULT_SETTINGS[f]
                    /\ changed'
            /\ settings[f] = DEFAULT_SETTINGS[f] =>
                    /\ ~SettingReset(f, MaxEdits)
                    /\ last'.op = "reset" => settings'[f] = settings[f] ]_vars

\* A reset, made after a render cycle had cleared the dirty flag, brought
\* the texture size back to its default and awaits its cycle.
C15_Witness ==
    /\ last.op = "reset"
    /\ edits = 2
    /\ pending = 1
    /\ changed
    /\ settings = DEFAULT_SETTINGS
    /\ cache.size # DefaultTextureSize * DefaultTextureSize

\* The controls of the tiling sub-parameters.
TilingControls == { "tile_width", "tile_height", "link_tile_size_to_frequency" }

\* The kind has a tileable evaluator in the dimension: with `tileable` on,
\* the sampler resolves.
SupportsTiling(s) == SamplerIsSome([s EXCEPT !.tileable = TRUE])

\* C16 as stated: a step that changes tile_width, tile_height or the link
\* toggle through its own control (edit or reset) happens only in a state
\* where `tileable` is on and the noise kind supports tiling in the
\* dimension.
C16_TilingControlsGuarded ==
    [][ \A f \in TilingControls : \A v \in Domain(f) :
            SetThroughItsSetting(f, v, MaxEdits) =>
                settings.tileable /\ SupportsTiling(settings) ]_vars

\* C18 as stated: in every state reached from the defaults by edits, resets
\* and toggles of the link, the link being on implies that frequency,
\* tile_width and tile_height are equal.
C18_LinkedFieldsEqual ==
    settings.link_tile_size_to_frequency =>
        /\ settings.frequency = settings.tile_width
        /\ settings.tile_width = settings.tile_height

----------------------------------------------------------------------------
(* Properties of the hand-off to the display sink *)

\* C17: the image of the sink changes only in a render cycle that found the
\* dirty flag set; what such a cycle hands over has the declared size
\* [N, N] for the texture size N of the cycle and N*N pixels, it is the
\* whole pixel buffer as the normalization loops of that cycle left it, and
\* every pixel is the gray normalized in that cycle from the value at its
\* index: no pixel is the magenta of the allocation.
C17_HandsOverNormalizedGrid ==
    [][ /\ texture' # texture => (changed /\ ImagePreviewContents)
        /\ (changed /\ ImagePreviewContents) =>
                LET N == settings.texture_size
                IN  /\ ~panicked'
                    /\ texture'.size = << N, N >>
                    /\ Len(texture'.pixels) = N * N
                    /\ texture'.pixels = cache'.pixels
                    /\ \A i \in 1..(N * N) :
                            LET p == texture'.pixels[i]
                                byte == ClaimedByte(settings.noise,
                                                    cache'.values[i].raw)
                            IN  /\ p # << 255, 0, 255 >>
                                /\ p = << byte, byte, byte >> ]_vars

\* A pass reallocated the buffers (zero values, magenta pixels) and its
\* sampler did not resolve: the sink got a grid without a magenta pixel.
C17_Witness ==
    /\ AfterDirtyCycle
    /\ last.realloc
    /\ ~sample_success
    /\ settings.texture_size > 0
    /\ texture.size = << settings.texture_size, settings.texture_size >>
    /\ \A i \in DOMAIN texture.pixels : texture.pixels[i] # Magenta

============================================================================
